---- MODULE Spec2Model ----
(***************************************************************************)
(* Topic listings of tildes: the TopicQuery builder (filters, sort option, *)
(* per-viewer columns), the merge of a result row onto its Topic entity,   *)
(* and the default order/period of a listing.                              *)
(*                                                                         *)
(* Values.  Python's None / SQL NULL is Null; a present value v is         *)
(* Some(v); an attribute that was never assigned on an entity is Unset.    *)
(* A string holding an ltree path is modelled as the sequence of its       *)
(* dot-separated labels.                                                   *)
(***************************************************************************)
EXTENDS Integers, Sequences, FiniteSets, TLC

VARIABLES
    now,            \* utc_now(), in hours
    topics,         \* the Topic rows: group_id, created_time, tags, is_pinned
    num_comments,   \* Topic.num_comments, per topic
    votes,          \* the TopicVote rows: pairs <<topic, user>>
    visits,         \* the TopicVisit rows: per user and topic, a row or Null
    track,          \* User.track_comment_visits, per user
    viewer,         \* request.user of the request being served (Anon: none)
    entity,         \* the Topic entities of the request's session: the
                    \* attributes _process_result puts on them
    query,          \* the TopicQuery being built
    chain,          \* the generative calls made on it so far, in order
    home_defaults,  \* User.home_default_order / home_default_period, per user
    group_settings, \* the UserGroupSettings rows, per <<user, group>>, or Null
    request,        \* the listing request being served, or Null
    default_settings, \* get_group_topics' local of that name, or Null
    response        \* what get_group_topics returned for it, or Null

vars == <<now, topics, num_comments, votes, visits, track, viewer, entity,
          query, chain, home_defaults, group_settings, request,
          default_settings, response>>
settings_vars == <<home_defaults, group_settings>>
view_vars == <<request, default_settings, response>>
listing_vars == <<topics, query, chain, settings_vars, view_vars>>

-----------------------------------------------------------------------------
(* Bounds *)
MaxComments == 1
MaxCalls == 2

Users == {"u1", "u2"}
Topics == {"t1", "t2"}
Anon == "anonymous"

Null == [tag |-> "null"]
Unset == [tag |-> "unset"]
Some(v) == [tag |-> "some", val |-> v]

Max(a, b) == IF a >= b THEN a ELSE b

-----------------------------------------------------------------------------
(* TopicQuery: the per-viewer columns *)

AnyUser_attach_vote_data(t, user) == \E u \in Users : <<t, u>> \in votes

\* _attach_vote_data: EXISTS (TopicVote for this topic and request.user)
_attach_vote_data(t, user) == <<t, user>> \in votes

\* _attach_visit_data: the outer join's two columns, or two literal NULLs
_attach_visit_data(t, user) ==
    IF track[user]
    THEN IF visits[user][t] = Null
         THEN [visit_time |-> Null, num_comments |-> Null]
         ELSE [visit_time |-> Some(visits[user][t].val.visit_time),
               num_comments |-> Some(visits[user][t].val.num_comments)]
    ELSE [visit_time |-> Null, num_comments |-> Null]

\* _attach_extra_data: the result row of topic t, a bare Topic when there is
\* no request.user, otherwise the Topic with the three extra columns
_attach_extra_data(t, user) ==
    IF user = Anon
    THEN [kind |-> "Topic", Topic |-> t]
    ELSE [kind |-> "Row", Topic |-> t,
          user_voted |-> _attach_vote_data(t, user),
          visit_time |-> _attach_visit_data(t, user).visit_time,
          num_comments |-> _attach_visit_data(t, user).num_comments]

\* the "new comments" value of a row whose num_comments column is not NULL
NoFloor_new_comments(topic_num_comments, row_num_comments) ==
    topic_num_comments - row_num_comments

new_comments(topic_num_comments, row_num_comments) ==
    Max(topic_num_comments - row_num_comments, 0)

\* _process_result: the attributes of the entity topic after merging result
\* onto it; topic holds the attributes the entity had before
_process_result(topic, topic_num_comments, result) ==
    IF result.kind = "Topic"
    THEN [user_voted |-> Some(FALSE),
          last_visit_time |-> Null,
          comments_since_last_visit |-> Null]
    ELSE [user_voted |-> Some(result.user_voted),
          last_visit_time |-> result.visit_time,
          comments_since_last_visit |->
              IF result.num_comments # Null
              THEN Some(new_comments(topic_num_comments,
                                     result.num_comments.val))
              ELSE topic.comments_since_last_visit]

\* a Topic entity newly loaded into a session: none of the three attributes
\* has been assigned
FreshEntity ==
    [user_voted |-> Unset, last_visit_time |-> Unset,
     comments_since_last_visit |-> Unset]

-----------------------------------------------------------------------------
(* Groups, tags and the Topic rows *)

\* the Group rows: group_id -> path
GroupPath ==
    [g \in {"g_a", "g_ab", "g_c"} |->
        CASE g = "g_a" -> <<"a">>
          [] g = "g_ab" -> <<"a", "b">>
          [] g = "g_c" -> <<"c">>]
Groups == DOMAIN GroupPath

IsPrefix(p, path) ==
    /\ Len(p) <= Len(path)
    /\ \A i \in 1..Len(p) : p[i] = path[i]

\* ltree's descendant_of: path is one of the ancestors or below one of them
descendant_of(path, ancestors) == \E a \in ancestors : IsPrefix(a, path)

\* str(tag): the text of an Ltree is its path; the text of None is "None"
str(tag) == IF tag = Null THEN <<"None">> ELSE tag.val

TagSets == {{}, {<<"x", "y">>}, {<<"z">>}}
CreatedTimes == {0, 50, 95}
TopicRows ==
    [group_id : Groups, created_time : CreatedTimes, tags : TagSets,
     is_pinned : BOOLEAN]

-----------------------------------------------------------------------------
(* TopicQuery: the generative calls.  A query is its WHERE criteria, in    *)
(* the order filter() added them, and its sort state; raised is TRUE once  *)
(* a call of the chain has raised, which ends the chain.                   *)

\* the sort state of a new query, before any apply_sort_option
DefaultSort == [sort_column |-> "last_activity_time", sort_desc |-> TRUE]

\* TopicQuery.__init__
NewQuery ==
    [raised |-> FALSE, criteria |-> <<>>,
     sort_column |-> DefaultSort.sort_column,
     sort_desc |-> DefaultSort.sort_desc]

\* Query.filter: one more criterion, ANDed with those already there
filter(q, criterion) == [q EXCEPT !.criteria = Append(@, criterion)]

raise(q) == [q EXCEPT !.raised = TRUE]

KnownSortOptions == {"VOTES", "COMMENTS", "NEW", "ACTIVITY"}

apply_sort_option(q, sort, desc) ==
    IF q.raised THEN q
    ELSE [q EXCEPT
            !.sort_column =
                IF sort = Some("VOTES") THEN "num_votes"
                ELSE IF sort = Some("COMMENTS") THEN "num_comments"
                ELSE IF sort = Some("NEW") THEN "created_time"
                ELSE IF sort = Some("ACTIVITY") THEN "last_activity_time"
                ELSE @,
            !.sort_desc = desc]

\* groups: a sequence of group ids
inside_groups(q, groups) ==
    IF q.raised THEN q
    ELSE LET query_paths == {GroupPath[groups[i]] : i \in 1..Len(groups)}
             subgroup_subquery ==
                 {g \in Groups : descendant_of(GroupPath[g], query_paths)}
         IN  filter(q, [column |-> "group_id", in |-> subgroup_subquery])

\* period: Some(hours), a SimpleHoursPeriod, or Null; None has no timedelta
inside_time_period(q, period) ==
    IF q.raised THEN q
    ELSE IF period = Null THEN raise(q)
    ELSE filter(q, [column |-> "created_time", after |-> now - period.val])

\* tag: Some(path), an Ltree, or Null
has_tag(q, tag) ==
    IF q.raised THEN q
    ELSE filter(q, [column |-> "_tags", descendant_of |-> str(tag)])

is_pinned(q, pinned) ==
    IF q.raised THEN q
    ELSE filter(q, [column |-> "is_pinned", equals |-> pinned])

\* whether Topic row t satisfies criterion c
Satisfies(t, c) ==
    CASE c.column = "group_id" -> topics[t].group_id \in c.in
      [] c.column = "created_time" -> topics[t].created_time > c.after
      [] c.column = "_tags" ->
            \E tg \in topics[t].tags : descendant_of(tg, {c.descendant_of})
      [] c.column = "_tags_overlap" -> topics[t].tags \cap c.not_any = {}
      [] c.column = "is_pinned" -> topics[t].is_pinned = c.equals

\* the topics the query selects
Results(q) ==
    {t \in Topics : \A i \in 1..Len(q.criteria) : Satisfies(t, q.criteria[i])}

\* one call of the chain
Call(q, c) ==
    CASE c.method = "inside_groups" -> inside_groups(q, c.arg)
      [] c.method = "inside_time_period" -> inside_time_period(q, c.arg)
      [] c.method = "has_tag" -> has_tag(q, c.arg)
      [] c.method = "is_pinned" -> is_pinned(q, c.arg)
      [] c.method = "apply_sort_option" ->
            apply_sort_option(q, c.arg, c.desc)

RECURSIVE Run(_)
\* the query a chain of calls builds from a new query
Run(calls) ==
    IF calls = <<>> THEN NewQuery
    ELSE Call(Run(SubSeq(calls, 1, Len(calls) - 1)), calls[Len(calls)])

-----------------------------------------------------------------------------
(* The listing view and its default settings *)

Missing == [tag |-> "missing"]      \* marshmallow's missing
Home == "home"                      \* the context of the home route: no Group

\* request.user.subscriptions, as the groups subscribed to
Subscriptions ==
    [u \in Users |-> IF u = "u1" THEN <<"g_a">> ELSE <<"g_ab", "g_c">>]

\* request.user._filtered_topic_tags
FilteredTopicTags ==
    [u \in Users |-> IF u = "u1" THEN {} ELSE {<<"z">>}]

\* a stored period: its short form, a count and a unit ("12h", "2d")
ShortForms == {[count |-> 12, unit |-> "h"], [count |-> 2, unit |-> "d"]}

\* ShortTimePeriod().deserialize: the SimpleHoursPeriod of a short form
ShortTimePeriod_deserialize(short) ==
    Some(IF short.unit = "d" THEN short.count * 24 ELSE short.count)

StoredOrders == {Null, Some("NEW"), Some("VOTES")}
StoredPeriods == {Null} \cup {Some(f) : f \in ShortForms}
DefaultsRows == [default_order : StoredOrders, default_period : StoredPeriods]

NoHomeDefaults ==
    [u \in Users |-> [default_order |-> Null, default_period |-> Null]]
NoGroupSettings == [ug \in Users \X Groups |-> Null]

\* the UserGroupSettings row of (request.user, request.context), if any
user_settings(user, context) ==
    IF context \in Groups THEN group_settings[<<user, context>>] ELSE Null

GlobalFirst_default_order(user, context) ==
    IF home_defaults[user].default_order # Null
    THEN home_defaults[user].default_order.val
    ELSE IF user_settings(user, context) # Null
            /\ user_settings(user, context).val.default_order # Null
    THEN user_settings(user, context).val.default_order.val
    ELSE "ACTIVITY"

default_order(user, context) ==
    IF user_settings(user, context) # Null
       /\ user_settings(user, context).val.default_order # Null
    THEN user_settings(user, context).val.default_order.val
    ELSE IF home_defaults[user].default_order # Null
    THEN home_defaults[user].default_order.val
    ELSE "ACTIVITY"

Ignoring_effective_order(user, context, order) == default_order(user, context)

\* the order the default period depends on
effective_order(user, context, order) ==
    IF order = Missing THEN default_order(user, context) ELSE order.val

default_period(user, context, order) ==
    IF user_settings(user, context) # Null
       /\ user_settings(user, context).val.default_period # Null
    THEN ShortTimePeriod_deserialize(
             user_settings(user, context).val.default_period.val)
    ELSE IF home_defaults[user].default_period # Null
    THEN ShortTimePeriod_deserialize(home_defaults[user].default_period.val)
    ELSE IF effective_order(user, context, order) = "NEW" THEN Null
    ELSE IF effective_order(user, context, order) = "ACTIVITY" THEN Some(72)
    ELSE Some(24)

Raised == [raised |-> TRUE]

Effective_get_default_settings(user, context, order) ==
    IF user = Anon THEN Raised
    ELSE [raised |-> FALSE,
          order |-> effective_order(user, context, order),
          period |-> default_period(user, context, order)]

\* _get_default_settings: request.user is None has no home_default_order
_get_default_settings(user, context, order) ==
    IF user = Anon THEN Raised
    ELSE [raised |-> FALSE,
          order |-> default_order(user, context),
          period |-> default_period(user, context, order)]

\* the query get_group_topics builds; after_id36 and before_id36 place the
\* page inside the result and leave the criteria as they are
listing_query(user, groups, order, period, tag, unfiltered) ==
    LET q == apply_sort_option(
                 has_tag(inside_time_period(inside_groups(NewQuery, groups),
                                            period), tag),
                 Some(order), TRUE)
    IN  IF q.raised \/ tag # Null \/ unfiltered THEN q
        ELSE filter(q, [column |-> "_tags_overlap",
                        not_any |-> FilteredTopicTags[user]])

StandardPeriods == {1, 12, 24, 72}

-----------------------------------------------------------------------------
(* Building a query call by call *)

GroupLists == {<<"g_a">>, <<"g_ab">>, <<"g_c">>, <<"g_ab", "g_c">>}
Periods == {Null, Some(12), Some(72)}
Tags == {Null, Some(<<"x">>), Some(<<"x", "y">>)}
SortArgs == {Some(o) : o \in KnownSortOptions} \cup {Null}

annotation_vars ==
    <<now, num_comments, votes, visits, track, viewer, entity>>

\* request.query(Topic)
request_query ==
    /\ chain # <<>>
    /\ query' = NewQuery
    /\ chain' = <<>>
    /\ UNCHANGED <<topics, annotation_vars, settings_vars, view_vars>>

CallInsideGroups ==
    \E groups \in GroupLists :
        /\ Len(chain) < MaxCalls
        /\ ~query.raised
        /\ query' = inside_groups(query, groups)
        /\ chain' = Append(chain, [method |-> "inside_groups", arg |-> groups,
                                   desc |-> TRUE])
        /\ UNCHANGED <<topics, annotation_vars, settings_vars, view_vars>>

CallInsideTimePeriod ==
    \E period \in Periods :
        /\ Len(chain) < MaxCalls
        /\ ~query.raised
        /\ query' = inside_time_period(query, period)
        /\ chain' = Append(chain, [method |-> "inside_time_period", arg |-> period,
                                   desc |-> TRUE])
        /\ UNCHANGED <<topics, annotation_vars, settings_vars, view_vars>>

CallHasTag ==
    \E tag \in Tags :
        /\ Len(chain) < MaxCalls
        /\ ~query.raised
        /\ query' = has_tag(query, tag)
        /\ chain' = Append(chain, [method |-> "has_tag", arg |-> tag,
                                   desc |-> TRUE])
        /\ UNCHANGED <<topics, annotation_vars, settings_vars, view_vars>>

CallIsPinned ==
    \E pinned \in BOOLEAN :
        /\ Len(chain) < MaxCalls
        /\ ~query.raised
        /\ query' = is_pinned(query, pinned)
        /\ chain' = Append(chain, [method |-> "is_pinned", arg |-> pinned,
                                   desc |-> TRUE])
        /\ UNCHANGED <<topics, annotation_vars, settings_vars, view_vars>>

CallApplySortOption ==
    \E sort \in SortArgs, desc \in BOOLEAN :
        /\ Len(chain) < MaxCalls
        /\ ~query.raised
        /\ query' = apply_sort_option(query, sort, desc)
        /\ chain' = Append(chain, [method |-> "apply_sort_option", arg |-> sort,
                                   desc |-> desc])
        /\ UNCHANGED <<topics, annotation_vars, settings_vars, view_vars>>

\* the Topic rows the specifications of requests start from
SampleTopics ==
    [t \in Topics |->
        IF t = "t1"
        THEN [group_id |-> "g_ab", created_time |-> 95,
              tags |-> {<<"x", "y">>}, is_pinned |-> FALSE]
        ELSE [group_id |-> "g_c", created_time |-> 50,
              tags |-> {}, is_pinned |-> TRUE]]

InitQuery ==
    /\ now = 100
    /\ topics \in [Topics -> TopicRows]
    /\ num_comments = [t \in Topics |-> 0]
    /\ votes = {}
    /\ visits = [u \in Users |-> [t \in Topics |-> Null]]
    /\ track = [u \in Users |-> TRUE]
    /\ viewer = Anon
    /\ entity = [t \in Topics |-> FreshEntity]
    /\ query = NewQuery
    /\ chain = <<>>
    /\ home_defaults = NoHomeDefaults
    /\ group_settings = NoGroupSettings
    /\ request = Null
    /\ default_settings = Null
    /\ response = Null

NextQuery ==
    \/ request_query
    \/ CallInsideGroups
    \/ CallInsideTimePeriod
    \/ CallHasTag
    \/ CallIsPinned
    \/ CallApplySortOption

SpecQuery == InitQuery /\ [][NextQuery]_vars

-----------------------------------------------------------------------------
(* The listing request *)

\* get_group_topics: the request of user (or Anon) for the home route
\* (context = Home) or the route of the group context
get_group_topics(user, context, order, period, tag, unfiltered) ==
    /\ response = Null
    /\ request' = Some([user |-> user, context |-> context, order |-> order,
                         period |-> period, tag |-> tag,
                         unfiltered |-> unfiltered])
    /\ viewer' = user
    /\ IF context = Home /\ user = Anon
       THEN \* request.user.subscriptions: request.user is None
            /\ default_settings' = Null
            /\ query' = NewQuery
            /\ response' = Raised
       ELSE /\ default_settings' = _get_default_settings(user, context, order)
            /\ IF default_settings'.raised
               THEN /\ query' = NewQuery
                    /\ response' = Raised
               ELSE LET groups == IF context = Home THEN Subscriptions[user]
                                  ELSE <<context>>
                        the_order == IF order = Missing
                                     THEN default_settings'.order
                                     ELSE order.val
                        the_period == IF period = Missing
                                      THEN default_settings'.period
                                      ELSE period.val
                    IN  /\ query' = listing_query(user, groups, the_order,
                                                  the_period, tag, unfiltered)
                        /\ response' =
                             IF query'.raised THEN Raised
                             ELSE [raised |-> FALSE,
                                   topics |-> Results(query'),
                                   order |-> the_order,
                                   period |-> the_period,
                                   period_options |->
                                       StandardPeriods \cup
                                       (IF the_period = Null THEN {}
                                        ELSE {the_period.val}),
                                   is_default_period |->
                                       the_period = default_settings'.period,
                                   is_default_view |->
                                       /\ the_period = default_settings'.period
                                       /\ the_order = default_settings'.order,
                                   tag |-> tag,
                                   unfiltered |-> unfiltered]
    \* get_page: the rows of the page are merged onto their entities
    /\ entity' = [t \in Topics |->
                    IF ~response'.raised /\ t \in response'.topics
                    THEN _process_result(FreshEntity, num_comments[t],
                                         _attach_extra_data(t, user))
                    ELSE FreshEntity]
    /\ UNCHANGED <<now, topics, num_comments, votes, visits, track, chain,
                   settings_vars>>

\* the response has been rendered and sent: the server awaits a request
EndRequest ==
    /\ response # Null
    /\ response' = Null
    /\ request' = Null
    /\ default_settings' = Null
    /\ query' = NewQuery
    /\ viewer' = Anon
    /\ entity' = [t \in Topics |-> FreshEntity]
    /\ UNCHANGED <<now, topics, num_comments, votes, visits, track, chain,
                   settings_vars>>

RequestOrders == {Missing} \cup {Some(o) : o \in KnownSortOptions}
RequestPeriods == {Missing, Some(Null), Some(Some(12))}
Contexts == {Home, "g_a", "g_ab"}

InitView ==
    /\ now = 100
    /\ topics = SampleTopics
    /\ num_comments = [t \in Topics |-> 0]
    /\ votes = {}
    /\ visits = [u \in Users |-> [t \in Topics |-> Null]]
    /\ track = [u \in Users |-> TRUE]
    /\ viewer = Anon
    /\ entity = [t \in Topics |-> FreshEntity]
    /\ query = NewQuery
    /\ chain = <<>>
    /\ \E h \in DefaultsRows :
         home_defaults =
            [u \in Users |->
                IF u = "u1" THEN h
                ELSE [default_order |-> Some("COMMENTS"),
                      default_period |-> Some([count |-> 1, unit |-> "h"])]]
    /\ \E r1 \in {Null} \cup {Some(r) : r \in DefaultsRows},
          r2 \in {Null, Some([default_order |-> Some("VOTES"),
                              default_period |->
                                  Some([count |-> 2, unit |-> "d"])])} :
         group_settings =
            [ug \in Users \X Groups |->
                IF ug = <<"u1", "g_a">> THEN r1
                ELSE IF ug = <<"u2", "g_a">> THEN r2
                ELSE Null]
    /\ request = Null
    /\ default_settings = Null
    /\ response = Null

NextView ==
    \/ EndRequest
    \/ \E user \in Users \cup {Anon}, context \in Contexts,
          order \in RequestOrders, period \in RequestPeriods,
          tag \in {Null, Some(<<"x">>)}, unfiltered \in BOOLEAN :
          get_group_topics(user, context, order, period, tag, unfiltered)

SpecView == InitView /\ [][NextView]_vars

-----------------------------------------------------------------------------
(* Requests.  Each request is served in a session and a transaction of    *)
(* its own, so every handler below starts from newly loaded entities.      *)

\* TopicVisit.generate_insert_statement: the upsert of the (user, topic) row
generate_insert_statement(user, t) ==
    [visits EXCEPT ![user][t] =
        Some([visit_time |-> now, num_comments |-> num_comments[t]])]

NewSession == [t \in Topics |-> FreshEntity]

\* a request of u (or of nobody: Anon) begins
BeginRequest(u) ==
    /\ viewer' = u
    /\ entity' = NewSession
    /\ UNCHANGED listing_vars
    /\ UNCHANGED <<now, num_comments, votes, visits, track>>

\* the request's TopicQuery is executed: every row is merged onto its entity
ExecuteQuery ==
    /\ entity' = [t \in Topics |->
                    _process_result(entity[t], num_comments[t],
                                    _attach_extra_data(t, viewer))]
    /\ UNCHANGED listing_vars
    /\ UNCHANGED <<now, num_comments, votes, visits, track, viewer>>

\* get_topic, a request of user u (or Anon) for topic t
get_topic(u, t) ==
    /\ viewer' = u
    /\ entity' = NewSession
    /\ visits' = IF u # Anon /\ track[u]
                 THEN generate_insert_statement(u, t)
                 ELSE visits
    /\ UNCHANGED listing_vars
    /\ UNCHANGED <<now, num_comments, votes, track>>

\* post_comment_on_topic, a request of user u: one more comment on topic t
post_comment_on_topic(u, t) ==
    /\ num_comments[t] < MaxComments
    /\ num_comments' = [num_comments EXCEPT ![t] = @ + 1]
    /\ viewer' = u
    /\ entity' = NewSession
    /\ UNCHANGED listing_vars
    /\ UNCHANGED <<now, votes, visits, track>>

\* a request of user u deletes a comment of topic t
DeleteComment(u, t) ==
    /\ num_comments[t] > 0
    /\ num_comments' = [num_comments EXCEPT ![t] = @ - 1]
    /\ viewer' = u
    /\ entity' = NewSession
    /\ UNCHANGED listing_vars
    /\ UNCHANGED <<now, votes, visits, track>>

\* a request of user u votes on topic t, or takes the vote back
ToggleVote(u, t) ==
    /\ votes' = IF <<t, u>> \in votes
                THEN votes \ {<<t, u>>}
                ELSE votes \cup {<<t, u>>}
    /\ viewer' = u
    /\ entity' = NewSession
    /\ UNCHANGED listing_vars
    /\ UNCHANGED <<now, num_comments, visits, track>>

\* a request of user u changes the track_comment_visits setting
SetTrackCommentVisits(u) ==
    /\ track' = [track EXCEPT ![u] = ~@]
    /\ viewer' = u
    /\ entity' = NewSession
    /\ UNCHANGED listing_vars
    /\ UNCHANGED <<now, num_comments, votes, visits>>

Init ==
    /\ now = 100
    /\ num_comments = [t \in Topics |-> 0]
    /\ votes = {}
    /\ visits = [u \in Users |-> [t \in Topics |-> Null]]
    /\ track = [u \in Users |-> TRUE]
    /\ viewer = Anon
    /\ entity = NewSession
    /\ topics = SampleTopics
    /\ query = NewQuery
    /\ chain = <<>>
    /\ home_defaults = NoHomeDefaults
    /\ group_settings = NoGroupSettings
    /\ request = Null
    /\ default_settings = Null
    /\ response = Null

Next ==
    \/ \E u \in Users \cup {Anon} : BeginRequest(u)
    \/ ExecuteQuery
    \/ \E u \in Users \cup {Anon}, t \in Topics : get_topic(u, t)
    \/ \E u \in Users, t \in Topics : post_comment_on_topic(u, t)
    \/ \E u \in Users, t \in Topics : DeleteComment(u, t)
    \/ \E u \in Users, t \in Topics : ToggleVote(u, t)
    \/ \E u \in Users : SetTrackCommentVisits(u)

Spec == Init /\ [][Next]_vars

-----------------------------------------------------------------------------
(* Properties of the merged result rows, under Spec *)

\* _process_result has merged a row onto the entity of topic t
Annotated(t) == entity[t].user_voted # Unset

\* the viewer tracks visits and has a TopicVisit row for topic t
HasVisit(t) ==
    /\ viewer # Anon
    /\ track[viewer]
    /\ visits[viewer][t] # Null

\* C1: for a viewer with visit tracking enabled, a topic annotated while the
\* viewer has a visit record has comments_since_last_visit = max(n - k, 0),
\* n the topic's comment count and k the count snapshotted at the viewer's
\* last visit; the value is never negative.
C1_NewCommentsSinceVisit ==
    \A t \in Topics :
        (Annotated(t) /\ HasVisit(t)) =>
            LET n == num_comments[t]
                k == visits[viewer][t].val.num_comments
            IN  /\ entity[t].comments_since_last_visit =
                       Some(IF n - k > 0 THEN n - k ELSE 0)
                /\ entity[t].comments_since_last_visit.val >= 0

\* a topic annotated after comments were deleted since the viewer's visit
C1_Witness ==
    \E t \in Topics :
        /\ Annotated(t)
        /\ HasVisit(t)
        /\ num_comments[t] < visits[viewer][t].val.num_comments
        /\ entity[t].comments_since_last_visit = Some(0)

\* C2: for a present viewer, an annotated topic's comments_since_last_visit
\* is null exactly when the viewer has no visit record for the topic or the
\* viewer's track_comment_visits is disabled.
C2_NullExactlyWithoutVisit ==
    \A t \in Topics :
        (Annotated(t) /\ viewer # Anon) =>
            (entity[t].comments_since_last_visit = Null <=> ~HasVisit(t))

\* C3: the annotated user_voted is true exactly when a TopicVote row exists
\* for (topic, viewer); for an anonymous viewer the row has no extra columns
\* and the annotation is (false, null, null).
C3_UserVoted ==
    \A t \in Topics :
        Annotated(t) =>
            IF viewer = Anon
            THEN /\ DOMAIN _attach_extra_data(t, viewer) = {"kind", "Topic"}
                 /\ entity[t] = [user_voted |-> Some(FALSE),
                                 last_visit_time |-> Null,
                                 comments_since_last_visit |-> Null]
            ELSE entity[t].user_voted = Some(<<t, viewer>> \in votes)

\* the viewer voted on one annotated topic and not on the other, on which
\* the other user voted
C3_Witness ==
    /\ viewer \in Users
    /\ \E t1, t2 \in Topics, other \in Users \ {viewer} :
        /\ Annotated(t1) /\ Annotated(t2)
        /\ <<t1, viewer>> \in votes
        /\ <<t2, viewer>> \notin votes
        /\ <<t2, other>> \in votes
        /\ entity[t1].user_voted = Some(TRUE)
        /\ entity[t2].user_voted = Some(FALSE)

-----------------------------------------------------------------------------
(* Properties of the generative calls, under SpecQuery *)

LastCall == chain[Len(chain)]
\* the query the last call was made on
Base == Run(SubSeq(chain, 1, Len(chain) - 1))

\* the query is the one its chain of calls builds
QueryIsRunOfChain == query = Run(chain)

\* C4: inside_time_period(null) completes without error and selects what
\* the query it was called on selects.
C4_NullPeriodIsNoOp ==
    (/\ chain # <<>>
     /\ LastCall.method = "inside_time_period"
     /\ LastCall.arg = Null) =>
        /\ ~query.raised
        /\ Results(query) = Results(Base)

\* C7: has_tag with an absent tag selects what the query it was called on
\* selects; with a present tag it keeps the topics having that tag or a
\* descendant of it.
C7_HasTag ==
    (chain # <<>> /\ LastCall.method = "has_tag") =>
        /\ ~query.raised
        /\ Results(query) =
             IF LastCall.arg = Null THEN Results(Base)
             ELSE {t \in Results(Base) :
                     \E tg \in topics[t].tags : IsPrefix(LastCall.arg.val, tg)}

FilterMethods == {"inside_groups", "inside_time_period", "has_tag",
                  "is_pinned"}

\* C8: two filter calls yield the same result set in either order, and that
\* set is within the result set of each call made alone.
C8_FiltersCommute ==
    (/\ Len(chain) = 2
     /\ chain[1].method \in FilterMethods
     /\ chain[2].method \in FilterMethods) =>
        LET swapped == Run(<<chain[2], chain[1]>>)
            first == Run(<<chain[1]>>)
            second == Run(<<chain[2]>>)
        IN  /\ ~query.raised /\ ~swapped.raised
            /\ Results(query) = Results(swapped)
            /\ Results(query) \subseteq Results(first)
            /\ Results(query) \subseteq Results(second)

SortColumnOf(option) ==
    CASE option = "VOTES" -> "num_votes"
      [] option = "COMMENTS" -> "num_comments"
      [] option = "NEW" -> "created_time"
      [] option = "ACTIVITY" -> "last_activity_time"

\* C9: apply_sort_option with one of the four options makes that option's
\* column the sort column; with any other value it raises and leaves the
\* sort column and the direction as they were.
C9_UnknownSortRejected ==
    (chain # <<>> /\ LastCall.method = "apply_sort_option") =>
        IF LastCall.arg # Null /\ LastCall.arg.val \in KnownSortOptions
        THEN /\ ~query.raised
             /\ query.sort_column = SortColumnOf(LastCall.arg.val)
             /\ query.sort_desc = LastCall.desc
        ELSE /\ query.raised
             /\ query.sort_column = Base.sort_column
             /\ query.sort_desc = Base.sort_desc

-----------------------------------------------------------------------------
(* Properties of the default settings, under SpecView *)

\* _get_default_settings has returned for the request being served
Resolved ==
    /\ request # Null
    /\ default_settings # Null
    /\ ~default_settings.raised

HoursOf(short) ==
    CASE short = [count |-> 12, unit |-> "h"] -> 12
      [] short = [count |-> 2, unit |-> "d"] -> 48
      [] short = [count |-> 1, unit |-> "h"] -> 1

\* the UserGroupSettings row the request's context selects, or Null
GroupRow ==
    IF request.val.context = Home THEN Null
    ELSE group_settings[<<request.val.user, request.val.context>>]

ExpectedOrder ==
    IF GroupRow # Null /\ GroupRow.val.default_order # Null
    THEN GroupRow.val.default_order.val
    ELSE IF home_defaults[request.val.user].default_order # Null
    THEN home_defaults[request.val.user].default_order.val
    ELSE "ACTIVITY"

ExpectedPeriod ==
    LET effective == IF request.val.order # Missing
                     THEN request.val.order.val ELSE ExpectedOrder
    IN  IF GroupRow # Null /\ GroupRow.val.default_period # Null
        THEN Some(HoursOf(GroupRow.val.default_period.val))
        ELSE IF home_defaults[request.val.user].default_period # Null
        THEN Some(HoursOf(home_defaults[request.val.user].default_period.val))
        ELSE IF effective = "NEW" THEN Null
        ELSE IF effective = "ACTIVITY" THEN Some(72)
        ELSE Some(24)

\* C5: the default period is the per-group default_period in a single-group
\* context where one is set, else the viewer's home_default_period, else by
\* the effective order (the explicit order if supplied, else the resolved
\* default order): "new" all time, "activity" 72 hours, any other 24 hours.
C5_DefaultPeriod ==
    Resolved =>
        /\ default_settings.period = ExpectedPeriod
        /\ (/\ request.val.order = Missing
            /\ request.val.context # Home
            /\ GroupRow = Null
            /\ home_defaults[request.val.user] =
                   [default_order |-> Null, default_period |-> Null]) =>
               default_settings.period = Some(72)

\* an explicit order "new" decides the period although the resolved default
\* order is the group's "votes"
C5_Witness ==
    /\ Resolved
    /\ request.val.order = Some("NEW")
    /\ GroupRow # Null
    /\ GroupRow.val.default_order = Some("VOTES")
    /\ GroupRow.val.default_period = Null
    /\ home_defaults[request.val.user].default_period = Null
    /\ default_settings.period = Null

\* C6: the default order is the per-group default_order in a single-group
\* context where one is set, else the viewer's home_default_order, else
\* "activity"; on the home listing no group settings are consulted.
C6_DefaultOrder == Resolved => default_settings.order = ExpectedOrder

\* the group's order wins over a different global order
C6_Witness ==
    /\ Resolved
    /\ GroupRow # Null
    /\ GroupRow.val.default_order = Some("NEW")
    /\ home_defaults[request.val.user].default_order = Some("VOTES")
    /\ default_settings.order = "NEW"

\* C10: the order _get_default_settings returns is the same for every
\* explicit order of the request, and is_default_view is true only when the
\* order and the period used are the returned default order and period.
C10_OrderIgnoresExplicitOrder ==
    Resolved =>
        /\ \A o \in RequestOrders :
              _get_default_settings(request.val.user, request.val.context,
                                    o).order = default_settings.order
        /\ (response # Null /\ ~response.raised /\ response.is_default_view) =>
              /\ response.order = default_settings.order
              /\ response.period = default_settings.period

\* an explicit order other than the default one, with the default period
C10_Witness ==
    /\ Resolved
    /\ request.val.order = Some("VOTES")
    /\ default_settings.order = "ACTIVITY"
    /\ response # Null /\ ~response.raised
    /\ response.period = default_settings.period
    /\ ~response.is_default_view

====
